---- MODULE Spec2Model ----
(***************************************************************************)
(* Model of podcast_filter.py: the pattern matcher, the playlist           *)
(* deduplication set builder, the paginated episode fetcher, the filter    *)
(* processor and the run controller.                                       *)
(*                                                                         *)
(* Text is a sequence of one-character strings.  A show or playlist        *)
(* reference is a sequence of tokens (scheme, host, path segment, id,      *)
(* "?", query).  An episode is identified by the integer of its uri; the   *)
(* integer 0 stands for a null item of a listing.                          *)
(***************************************************************************)
EXTENDS Integers, Sequences, FiniteSets, TLC

VARIABLES
    \* main()
    continue_on_error, nFilters, i, pc,
    total_found, total_added, successful_filters, failed_filters,
    \* the streaming service
    playlist, show,
    \* process_filter()
    filter_config, existing_episodes, plOffset, matching_episodes, found_count, ret,
    \* get_show_episodes()
    limit, episodes, offset,
    \* history of the calls made
    exitKind, apiCalls, addCalls, submitted, addedThisRun, builtFor, handledAt,
    requests, apiConforming,
    \* matches_patterns() applied on its own
    m_name, m_patterns, m_result

vars == <<continue_on_error, nFilters, i, pc, total_found, total_added,
          successful_filters, failed_filters, playlist, show, filter_config,
          existing_episodes, plOffset, matching_episodes, found_count, ret,
          limit, episodes, offset, exitKind, apiCalls, addCalls, submitted,
          addedThisRun, builtFor, handledAt, requests, apiConforming,
          m_name, m_patterns, m_result>>

mainVars == <<continue_on_error, nFilters, i, total_found, total_added,
              successful_filters, failed_filters>>

matchVars == <<m_name, m_patterns, m_result>>

fetchVars == <<limit, episodes, offset, requests, apiConforming>>

----------------------------------------------------------------------------
(* Bounds *)

\* Longest filter list of a run.
MaxFilters == 3

\* Longest pattern sequence handed to matches_patterns on its own.
MaxPatterns == 2

\* Items per page of the playlist listing served by the streaming service.
PageSize == 2

\* How far past a multiple of batch_size the fetch limits and show sizes go.
MaxOver == 1

----------------------------------------------------------------------------
(* Sequences *)

Min(a, b) == IF a < b THEN a ELSE b

Take(s, n) == SubSeq(s, 1, Min(Len(s), n))

Range(s) == {s[k] : k \in 1..Len(s)}

SeqsUpTo(S, n) == UNION {[1..k -> S] : k \in 0..n}

\* Number of positions of s holding x.
Occurrences(s, x) == Cardinality({k \in 1..Len(s) : s[k] = x})

\* s holds t as a contiguous run (Python's  t in s).
Contains(s, t) ==
    \E k \in 0..(Len(s) - Len(t)) : \A j \in 1..Len(t) : s[k + j] = t[j]

\* s.split(tok)[-1]: what follows the last tok (all of s without one).
AfterLast(s, tok) ==
    LET at == {k \in 1..Len(s) : s[k] = tok}
    IN  IF at = {} THEN s
        ELSE SubSeq(s, (CHOOSE k \in at : \A j \in at : j <= k) + 1, Len(s))

\* s.split(tok)[0]: what precedes the first tok (all of s without one).
BeforeFirst(s, tok) ==
    LET at == {k \in 1..Len(s) : s[k] = tok}
    IN  IF at = {} THEN s
        ELSE SubSeq(s, 1, (CHOOSE k \in at : \A j \in at : k <= j) - 1)

----------------------------------------------------------------------------
(* Configuration access and reference resolution *)

\* dict.get(key, default)
Get(d, key, default) == IF key \in DOMAIN d THEN d[key] ELSE default

extract_show_id(show_input) ==
    IF Contains(show_input, <<"open.spotify.com/", "show/">>)
    THEN BeforeFirst(AfterLast(show_input, "show/"), "?")
    ELSE show_input

extract_playlist_id(playlist_input) ==
    IF Contains(playlist_input, <<"open.spotify.com/", "playlist/">>)
    THEN BeforeFirst(AfterLast(playlist_input, "playlist/"), "?")
    ELSE playlist_input

----------------------------------------------------------------------------
(* Pattern matcher *)

\* Case folding of re.IGNORECASE.
Fold(c) ==
    CASE c = "A" -> "a"
      [] c = "B" -> "b"
      [] c = "C" -> "c"
      [] OTHER -> c

\* re.compile succeeds: in the modelled syntax (literals, "." and "(") a "("
\* is never closed, which re rejects with re.error.
ValidRegex(p) == \A k \in 1..Len(p) : p[k] # "("

\* One pattern atom against one character of the subject.
AtomMatches(a, c, ignorecase) ==
    \/ a = "."
    \/ IF ignorecase THEN Fold(a) = Fold(c) ELSE a = c

\* re.search(p, s, flags) for a valid p: a match at some position of s.
re_search(p, s, ignorecase) ==
    \E start \in 0..(Len(s) - Len(p)) :
        \A k \in 1..Len(p) : AtomMatches(p[k], s[start + k], ignorecase)

\* The loop of matches_patterns from pattern k on: "True", "False", or
\* "TypeError" when re.search is handed a pattern that is no string, which
\* except re.error does not catch.
RECURSIVE MatchFrom(_, _, _)
MatchFrom(episode_name, patterns, k) ==
    IF k > Len(patterns) THEN "False"
    ELSE LET pattern == patterns[k]
         IN  IF pattern.kind # "str" THEN "TypeError"
             ELSE IF ~ValidRegex(pattern.text)
                  THEN MatchFrom(episode_name, patterns, k + 1)
             ELSE IF re_search(pattern.text, episode_name, TRUE) THEN "True"
             ELSE MatchFrom(episode_name, patterns, k + 1)

\* matches_patterns giving up (False) at the first invalid pattern it meets.
matches_patterns_abort(episode_name, patterns) ==
    IF \E j \in 1..Len(patterns) :
          /\ ~ValidRegex(patterns[j].text)
          /\ \A h \in 1..(j - 1) :
                ~re_search(patterns[h].text, episode_name, TRUE)
    THEN "False"
    ELSE MatchFrom(episode_name, patterns, 1)

matches_patterns(episode_name, patterns) == MatchFrom(episode_name, patterns, 1)

Str(text) == [kind |-> "str", text |-> text]

\* A YAML scalar that is no string (a bare number in the pattern list).
NonStr == [kind |-> "int", text |-> <<>>]

Titles == {<<"A", "b">>, <<"b", "c">>, <<"c">>, <<>>}

Patterns == {Str(<<"a">>), Str(<<"b", ".">>), Str(<<"(", "a">>), Str(<<"C">>),
             Str(<<"B", "b">>)}

(* States of the parts a specification leaves unused *)

MainIdle ==
    /\ continue_on_error = TRUE
    /\ nFilters = 0
    /\ i = 0
    /\ total_found = 0
    /\ total_added = 0
    /\ successful_filters = 0
    /\ failed_filters = 0
    /\ handledAt = 0

FilterIdle ==
    /\ filter_config = <<>>
    /\ existing_episodes = {}
    /\ plOffset = 0
    /\ matching_episodes = <<>>
    /\ found_count = 0
    /\ ret = <<>>
    /\ exitKind = "none"
    /\ apiCalls = 0
    /\ addCalls = 0
    /\ submitted = <<>>
    /\ builtFor = 0

FetchIdle ==
    /\ limit = 0
    /\ episodes = <<>>
    /\ offset = 0
    /\ requests = <<>>
    /\ apiConforming = TRUE

MatchIdle ==
    /\ m_name = <<>>
    /\ m_patterns = <<>>
    /\ m_result = "none"

----------------------------------------------------------------------------
(* matches_patterns on its own *)

MatchInit ==
    /\ m_name \in Titles
    /\ m_patterns \in SeqsUpTo(Patterns, MaxPatterns)
    /\ m_result = "none"
    /\ pc = "matches_patterns"
    /\ playlist = <<>>
    /\ show = <<>>
    /\ addedThisRun = <<>>
    /\ MainIdle
    /\ FilterIdle
    /\ FetchIdle

\* matches_patterns(m_name, m_patterns) is called and returns.
MatchCall ==
    /\ pc = "matches_patterns"
    /\ m_result' = matches_patterns(m_name, m_patterns)
    /\ pc' = "matched"
    /\ UNCHANGED <<mainVars, playlist, show, filter_config, existing_episodes,
                   plOffset, matching_episodes, found_count, ret, fetchVars,
                   exitKind, apiCalls, addCalls, submitted, addedThisRun,
                   builtFor, handledAt, m_name, m_patterns>>

MatchSpec == MatchInit /\ [][MatchCall]_vars

----------------------------------------------------------------------------
(* Episode fetcher: get_show_episodes *)

\* Maximum allowed by the API per request.
batch_size == 50

\* The answers sp.show_episodes(show_id, limit=current_limit, offset=offset)
\* can give: an exception, None, or a page of at most current_limit items
\* of the show from the offset on, with or without a next pointer.
ShowEpisodesAnswers(current_limit, off) ==
    LET avail == IF Len(show) > off THEN Len(show) - off ELSE 0
    IN  {[kind |-> "raise", items |-> <<>>, next |-> FALSE],
         [kind |-> "none", items |-> <<>>, next |-> FALSE]}
        \cup {[kind |-> "page", items |-> SubSeq(show, off + 1, off + k), next |-> n] :
                 k \in 0..Min(current_limit, avail), n \in BOOLEAN}

\* The answer of an API that returns the requested number of items while the
\* show has them, and a next pointer exactly while more remain.
ConformingAnswer(current_limit, off, a) ==
    LET avail == IF Len(show) > off THEN Len(show) - off ELSE 0
    IN  /\ a.kind = "page"
        /\ Len(a.items) = Min(current_limit, avail)
        /\ a.next = (off + Len(a.items) < Len(show))

\* remaining = limit - len(episodes); current_limit = min(batch_size, remaining)
CurrentLimit(lim, collected) == Min(batch_size, lim - collected)

\* The loop going on after a short page as long as a next pointer is given.
LastPageIgnoringShort(a, current_limit) == ~a.next

\* The break after extending: no next pointer, or a short page.
LastPage(a, current_limit) == ~a.next \/ Len(a.items) < current_limit

\* The offset left where it was.
NextOffsetStuck(off, a) == off

\* The offset of the next request: offset += len(results['items'])
NextOffset(off, a) == off + Len(a.items)

\* One turn of the while loop of get_show_episodes, or its return.
FetchBatch ==
    /\ pc = "fetch"
    /\ IF Len(episodes) >= limit
       THEN /\ episodes' = Take(episodes, limit)
            /\ pc' = "fetched"
            /\ UNCHANGED <<offset, requests, apiConforming, apiCalls>>
       ELSE LET current_limit == CurrentLimit(limit, Len(episodes))
            IN  \E a \in ShowEpisodesAnswers(current_limit, offset) :
                  /\ requests' = Append(requests,
                         [limit |-> current_limit, offset |-> offset,
                          collected |-> Len(episodes), kind |-> a.kind,
                          got |-> Len(a.items), next |-> a.next])
                  /\ apiCalls' = apiCalls + 1
                  /\ apiConforming' =
                         (apiConforming /\ ConformingAnswer(current_limit, offset, a))
                  /\ \/ /\ a.kind = "raise"
                        /\ episodes' = <<>>
                        /\ pc' = "fetched"
                        /\ UNCHANGED offset
                     \/ /\ a.kind # "raise"
                        /\ a.kind = "none" \/ a.items = <<>>
                        /\ episodes' = Take(episodes, limit)
                        /\ pc' = "fetched"
                        /\ UNCHANGED offset
                     \/ /\ a.kind = "page"
                        /\ a.items # <<>>
                        /\ LastPage(a, current_limit)
                        /\ episodes' = Take(episodes \o a.items, limit)
                        /\ pc' = "fetched"
                        /\ UNCHANGED offset
                     \/ /\ a.kind = "page"
                        /\ a.items # <<>>
                        /\ ~LastPage(a, current_limit)
                        /\ episodes' = episodes \o a.items
                        /\ offset' = NextOffset(offset, a)
                        /\ pc' = "fetch"
    /\ UNCHANGED <<mainVars, playlist, show, filter_config, existing_episodes,
                   plOffset, matching_episodes, found_count, ret, limit,
                   exitKind, addCalls, submitted, addedThisRun, builtFor,
                   handledAt, matchVars>>

\* Limits and show sizes around the multiples of batch_size.
FetchSizes ==
    0..2 \cup {m * batch_size + d : m \in 1..2, d \in (0 - 1)..MaxOver}

FetchInit ==
    /\ pc = "fetch"
    /\ limit \in FetchSizes
    /\ \E n \in FetchSizes : show = [k \in 1..n |-> k]
    /\ episodes = <<>>
    /\ offset = 0
    /\ requests = <<>>
    /\ apiConforming = TRUE
    /\ playlist = <<>>
    /\ addedThisRun = <<>>
    /\ MainIdle
    /\ FilterIdle
    /\ MatchIdle

FetchSpec == FetchInit /\ [][FetchBatch]_vars /\ WF_vars(FetchBatch)

----------------------------------------------------------------------------
(* The streaming service: playlists and the show *)

Ep(u) == [type |-> "episode", uri |-> u]

Track(u) == [type |-> "track", uri |-> u]

\* A playlist item whose track is None.
NoTrack == [type |-> "none", uri |-> 0]

P1 == <<"P1">>

P2 == <<"P2">>

S1 == <<"S1">>

\* Playlists as they stand before a run: no episode uri twice.
InitialPlaylists ==
    {[p \in {P1, P2} |-> <<>>],
     (P1 :> <<Track(7), NoTrack, Ep(1)>>) @@ (P2 :> <<Ep(2)>>),
     (P1 :> <<Ep(2), Ep(3)>>) @@ (P2 :> <<>>)}

\* What the show lists, most recent first: 0 is a null item, and an episode
\* can be listed twice.
ShowCatalogs == {<<1, 2, 3>>, <<1, 1, 2>>, <<3, 0, 1>>, <<>>}

\* episode['name']
EpisodeName(u) ==
    CASE u = 1 -> <<"A", "b">>
      [] u = 2 -> <<"b", "c">>
      [] OTHER -> <<"c">>

\* The episode uris among the items of one page (lines 50-52).
EpisodeUrisOn(items) ==
    {items[k].uri : k \in {j \in 1..Len(items) : items[j].type = "episode"}}

\* The page of the listing that starts at off, and whether one follows.
PlaylistPage(pid, off) ==
    [items |-> SubSeq(playlist[pid], off + 1, Min(off + PageSize, Len(playlist[pid]))),
     next |-> off + PageSize < Len(playlist[pid])]

\* The listing read as if it had one page only.
HasNextPageNever(page) == FALSE

\* if results['next']: another page is asked for.
HasNextPage(page) == page.next

----------------------------------------------------------------------------
(* Filter configurations *)

ShowUrl == <<"https://", "open.spotify.com/", "show/", "S1", "?", "si=1">>

PlaylistUrl == <<"https://", "open.spotify.com/", "playlist/", "P1", "?", "si=1">>

\* A playlist url with nothing after "playlist/".
PlaylistUrlNoId == <<"https://", "open.spotify.com/", "playlist/">>

FilterConfigs ==
    {[show_id |-> ShowUrl, name_patterns |-> <<Str(<<"(", "a">>), Str(<<"a">>)>>,
      target_playlist_id |-> P1, max_episodes |-> 2],
     [show_id |-> S1, name_patterns |-> <<Str(<<"B">>)>>,
      target_playlist_id |-> PlaylistUrl],
     [show_id |-> S1, name_patterns |-> <<Str(<<"C">>)>>,
      target_playlist_id |-> P2, max_episodes |-> 1],
     [show_id |-> S1, name_patterns |-> <<NonStr, Str(<<"a">>)>>,
      target_playlist_id |-> P1, max_episodes |-> 2],
     [show_id |-> S1, name_patterns |-> <<Str(<<"a">>)>>],
     [show_id |-> S1, name_patterns |-> <<>>, target_playlist_id |-> P1],
     [name_patterns |-> <<Str(<<"a">>)>>, target_playlist_id |-> P1],
     [show_id |-> S1, name_patterns |-> <<Str(<<"a">>)>>,
      target_playlist_id |-> PlaylistUrlNoId]}

\* The locals process_filter reads from filter_config (lines 109-112).
ShowId == extract_show_id(Get(filter_config, "show_id", <<>>))

FilterPatterns == Get(filter_config, "name_patterns", <<>>)

PlaylistId == extract_playlist_id(Get(filter_config, "target_playlist_id", <<>>))

\* The default of max_episodes.
DefaultMaxEpisodes == 50

MaxEpisodes == Get(filter_config, "max_episodes", DefaultMaxEpisodes)

\* The validation without its test of the playlist id.
IncompleteIgnoringPlaylist == ShowId = <<>> \/ FilterPatterns = <<>>

\* if not show_id or not patterns or not playlist_id
Incomplete == ShowId = <<>> \/ FilterPatterns = <<>> \/ PlaylistId = <<>>

----------------------------------------------------------------------------
(* Filter processor: process_filter *)

Returned(found, added) == [raised |-> FALSE, found |-> found, added |-> added]

Raised == [raised |-> TRUE, found |-> 0, added |-> 0]

\* The service error left to propagate to the caller.
OnServiceErrorPropagate == Raised

\* What process_filter does with a service error of the show lookup or of
\* the playlist listing: print it and return 0, 0.
OnServiceError == Returned(0, 0)

\* The skip of episodes already in the playlist left out.
AlreadyInPlaylistNever(episode_uri, existing) == FALSE

\* if episode_uri in existing_episodes: continue
AlreadyInPlaylist(episode_uri, existing) == episode_uri \in existing

\* The for loop of lines 152-164 from episode k on.  A null episode makes
\* episode['name'] raise, a pattern that is no string makes re.search raise.
RECURSIVE MatchLoop(_, _, _, _, _)
MatchLoop(eps, k, existing, patterns, acc) ==
    IF k > Len(eps) THEN [raised |-> FALSE, matching |-> acc]
    ELSE IF eps[k] = 0 THEN [raised |-> TRUE, matching |-> acc]
    ELSE IF AlreadyInPlaylist(eps[k], existing)
         THEN MatchLoop(eps, k + 1, existing, patterns, acc)
    ELSE LET m == matches_patterns(EpisodeName(eps[k]), patterns)
         IN  IF m = "TypeError" THEN [raised |-> TRUE, matching |-> acc]
             ELSE IF m = "True"
                  THEN MatchLoop(eps, k + 1, existing, patterns, Append(acc, eps[k]))
             ELSE MatchLoop(eps, k + 1, existing, patterns, acc)

\* added_count after a successful playlist_add_items (line 171).
AddedCount(matching) == Len(matching)

\* The failed request counted as if it had added the candidates.
AddedCountOnFailureWrong(matching) == Len(matching)

\* added_count after a failed playlist_add_items: left at 0 (line 167).
AddedCountOnFailure(matching) == 0

\* Lines 108-130: read the configuration, validate it, look the show up.
ProcessFilterBegin ==
    /\ pc = "process_filter"
    /\ \/ /\ Incomplete
          /\ ret' = Returned(0, 0)
          /\ exitKind' = "skipped"
          /\ pc' = "returned"
          /\ UNCHANGED <<apiCalls, existing_episodes, plOffset, builtFor>>
       \/ /\ ~Incomplete
          /\ apiCalls' = apiCalls + 1
          /\ \/ /\ ret' = OnServiceError
                /\ exitKind' = "show_error"
                /\ pc' = "returned"
                /\ UNCHANGED <<existing_episodes, plOffset, builtFor>>
             \/ /\ ShowId = S1
                /\ existing_episodes' = {}
                /\ plOffset' = 0
                /\ builtFor' = i
                /\ pc' = "playlist_items"
                /\ UNCHANGED <<ret, exitKind>>
    /\ UNCHANGED <<mainVars, playlist, show, filter_config, matching_episodes,
                   found_count, fetchVars, addCalls, submitted, addedThisRun,
                   handledAt, matchVars>>

\* Lines 132-138 with get_playlist_episode_uris: one page of the listing is
\* read, or the request fails.
GetPlaylistPage ==
    /\ pc = "playlist_items"
    /\ apiCalls' = apiCalls + 1
    /\ \/ /\ ret' = OnServiceError
          /\ exitKind' = "playlist_error"
          /\ pc' = "returned"
          /\ UNCHANGED <<existing_episodes, plOffset, limit, episodes, offset,
                         requests, apiConforming>>
       \/ /\ PlaylistId \in DOMAIN playlist
          /\ LET page == PlaylistPage(PlaylistId, plOffset)
             IN  /\ existing_episodes' = existing_episodes \cup EpisodeUrisOn(page.items)
                 /\ IF HasNextPage(page)
                    THEN /\ plOffset' = plOffset + PageSize
                         /\ pc' = "playlist_items"
                         /\ UNCHANGED <<limit, episodes, offset, requests,
                                        apiConforming>>
                    ELSE /\ pc' = "fetch"
                         /\ limit' = MaxEpisodes
                         /\ episodes' = <<>>
                         /\ offset' = 0
                         /\ requests' = <<>>
                         /\ apiConforming' = TRUE
                         /\ UNCHANGED plOffset
          /\ UNCHANGED <<ret, exitKind>>
    /\ UNCHANGED <<mainVars, playlist, show, filter_config, matching_episodes,
                   found_count, addCalls, submitted, addedThisRun, builtFor,
                   handledAt, matchVars>>

\* Lines 144-164 and 175-178: no episodes, or the matching loop; with no
\* candidate the filter returns at once.
MatchEpisodes ==
    /\ pc = "fetched"
    /\ i >= 1
    /\ IF episodes = <<>>
       THEN /\ ret' = Returned(0, 0)
            /\ exitKind' = "no_episodes"
            /\ pc' = "returned"
            /\ UNCHANGED <<matching_episodes, found_count>>
       ELSE LET r == MatchLoop(episodes, 1, existing_episodes, FilterPatterns, <<>>)
            IN  \/ /\ r.raised
                   /\ ret' = Raised
                   /\ exitKind' = "raised"
                   /\ pc' = "returned"
                   /\ matching_episodes' = r.matching
                   /\ found_count' = Len(r.matching)
                \/ /\ ~r.raised
                   /\ r.matching = <<>>
                   /\ ret' = Returned(0, 0)
                   /\ exitKind' = "no_match"
                   /\ pc' = "returned"
                   /\ UNCHANGED <<matching_episodes, found_count>>
                \/ /\ ~r.raised
                   /\ r.matching # <<>>
                   /\ matching_episodes' = r.matching
                   /\ found_count' = Len(r.matching)
                   /\ pc' = "add"
                   /\ UNCHANGED <<ret, exitKind>>
    /\ UNCHANGED <<mainVars, playlist, show, filter_config, existing_episodes,
                   plOffset, fetchVars, apiCalls, addCalls, submitted,
                   addedThisRun, builtFor, handledAt, matchVars>>

\* Lines 168-174 and 178: the one playlist_add_items request.
AddItems ==
    /\ pc = "add"
    /\ apiCalls' = apiCalls + 1
    /\ addCalls' = addCalls + 1
    /\ submitted' = matching_episodes
    /\ \/ /\ playlist' = [playlist EXCEPT ![PlaylistId] =
                             @ \o [k \in 1..Len(matching_episodes) |->
                                      Ep(matching_episodes[k])]]
          /\ addedThisRun' = [addedThisRun EXCEPT ![PlaylistId] =
                                 @ \cup Range(matching_episodes)]
          /\ ret' = Returned(found_count, AddedCount(matching_episodes))
          /\ exitKind' = "added"
       \/ /\ ret' = Returned(found_count, AddedCountOnFailure(matching_episodes))
          /\ exitKind' = "add_error"
          /\ UNCHANGED <<playlist, addedThisRun>>
    /\ pc' = "returned"
    /\ UNCHANGED <<mainVars, show, filter_config, existing_episodes, plOffset,
                   matching_episodes, found_count, fetchVars, builtFor,
                   handledAt, matchVars>>

----------------------------------------------------------------------------
(* Run controller: main *)

\* The flag ignored: the loop always goes on.
StopsAfterFailureNever == FALSE

\* if not continue_on_error: break
StopsAfterFailure == ~continue_on_error

Init ==
    /\ pc = "main_loop"
    /\ continue_on_error \in BOOLEAN
    /\ nFilters \in 1..MaxFilters
    /\ i = 0
    /\ total_found = 0
    /\ total_added = 0
    /\ successful_filters = 0
    /\ failed_filters = 0
    /\ handledAt = 0
    /\ playlist \in InitialPlaylists
    /\ show \in ShowCatalogs
    /\ addedThisRun = [p \in {P1, P2} |-> {}]
    /\ FilterIdle
    /\ FetchIdle
    /\ MatchIdle

\* Line 225: the loop takes the next filter of the list and calls
\* process_filter with it.  The list is read-only configuration of
\* nFilters elements and process_filter sees one element at a time, so the
\* element is drawn when the loop reaches it.
MainNext ==
    /\ pc = "main_loop"
    /\ i < nFilters
    /\ i' = i + 1
    /\ filter_config' \in FilterConfigs
    /\ pc' = "process_filter"
    /\ UNCHANGED <<continue_on_error, nFilters, total_found, total_added,
                   successful_filters, failed_filters, playlist, show,
                   existing_episodes, plOffset, matching_episodes, found_count,
                   ret, fetchVars, exitKind, apiCalls, addCalls, submitted,
                   addedThisRun, builtFor, handledAt, matchVars>>

\* The frame of process_filter is gone once main has its result.
ForgetCall ==
    /\ filter_config' = <<>>
    /\ existing_episodes' = {}
    /\ plOffset' = 0
    /\ matching_episodes' = <<>>
    /\ found_count' = 0
    /\ ret' = <<>>
    /\ exitKind' = "none"
    /\ apiCalls' = 0
    /\ addCalls' = 0
    /\ submitted' = <<>>
    /\ builtFor' = 0
    /\ limit' = 0
    /\ episodes' = <<>>
    /\ offset' = 0
    /\ requests' = <<>>
    /\ apiConforming' = TRUE

\* Lines 227-230: process_filter returned found, added.
MainCollect ==
    /\ pc = "returned"
    /\ ~ret.raised
    /\ total_found' = total_found + ret.found
    /\ total_added' = total_added + ret.added
    /\ successful_filters' = successful_filters + 1
    /\ handledAt' = IF handledAt = 0 /\ exitKind \in {"show_error", "playlist_error"}
                    THEN i ELSE handledAt
    /\ pc' = "main_loop"
    /\ ForgetCall
    /\ UNCHANGED <<continue_on_error, nFilters, i, failed_filters, playlist,
                   show, addedThisRun, matchVars>>

\* Lines 231-237: an exception left process_filter.
MainExcept ==
    /\ pc = "returned"
    /\ ret.raised
    /\ failed_filters' = failed_filters + 1
    /\ pc' = IF StopsAfterFailure THEN "break" ELSE "main_loop"
    /\ ForgetCall
    /\ UNCHANGED <<continue_on_error, nFilters, i, total_found, total_added,
                   successful_filters, playlist, show, addedThisRun, handledAt,
                   matchVars>>

\* Lines 239-248: the global summary, after the loop ended or broke.
MainSummary ==
    /\ \/ pc = "main_loop" /\ i = nFilters
       \/ pc = "break"
    /\ pc' = "done"
    /\ UNCHANGED <<mainVars, playlist, show, filter_config, existing_episodes,
                   plOffset, matching_episodes, found_count, ret, fetchVars,
                   exitKind, apiCalls, addCalls, submitted, addedThisRun,
                   builtFor, handledAt, matchVars>>

Next ==
    \/ MainNext
    \/ ProcessFilterBegin
    \/ GetPlaylistPage
    \/ FetchBatch
    \/ MatchEpisodes
    \/ AddItems
    \/ MainCollect
    \/ MainExcept
    \/ MainSummary

Spec == Init /\ [][Next]_vars

\* The run is one sequential thread: every call returns and the next
\* statement is executed.
FairSpec == Spec /\ WF_vars(Next)

----------------------------------------------------------------------------
(* Properties *)

\* The episode uris the target playlist of the current filter holds.
PlaylistEpisodeUris == EpisodeUrisOn(playlist[PlaylistId])

\* The title of episode u matches the patterns of the current filter.
TitleMatches(u) == u # 0 /\ matches_patterns(EpisodeName(u), FilterPatterns) = "True"

\* C1: an episode whose uri is on any page of the target playlist's listing
\* (with track type episode) is never in the list handed to
\* playlist_add_items, whether or not its title matches a pattern: the
\* candidates about to be submitted are disjoint from the episode uris of
\* the whole playlist, and the list submitted is that list of candidates,
\* disjoint from the set the listing built.
C1_ExistingNeverSubmitted ==
    /\ pc = "add" =>
          /\ existing_episodes = PlaylistEpisodeUris
          /\ Range(matching_episodes) \cap PlaylistEpisodeUris = {}
    /\ addCalls > 0 =>
          /\ submitted = matching_episodes
          /\ Range(submitted) \cap existing_episodes = {}

\* An episode on the second page of the listing, with a matching title, was
\* fetched again, and other candidates are about to be submitted.
C1_Witness ==
    /\ pc = "add"
    /\ plOffset > 0
    /\ \E k \in 1..Len(episodes) :
          /\ episodes[k] \in existing_episodes
          /\ episodes[k] \notin EpisodeUrisOn(PlaylistPage(PlaylistId, 0).items)
          /\ TitleMatches(episodes[k])

\* C2: a playlist that held each episode uri at most once before the run
\* holds each episode uri at most once at every moment of the run.
C2_NoDuplicateEpisodes ==
    \A p \in DOMAIN playlist :
        \A u \in EpisodeUrisOn(playlist[p]) : Occurrences(playlist[p], Ep(u)) <= 1

\* C3: the existing-episode set is built for the very filter that is
\* matching, from the playlist as earlier filters of the run left it, so an
\* episode added by an earlier filter of the run is not a candidate again.
C3_RebuiltForEveryFilter ==
    /\ (i >= 1 /\ pc \in {"fetch", "fetched", "add"}) =>
          /\ builtFor = i
          /\ addedThisRun[PlaylistId] \subseteq existing_episodes
    /\ pc = "add" => Range(matching_episodes) \cap addedThisRun[PlaylistId] = {}

\* A later filter of the run fetched, with a matching title, an episode an
\* earlier filter added to the same playlist, and submits others.
C3_Witness ==
    /\ pc = "add"
    /\ i >= 2
    /\ \E k \in 1..Len(episodes) :
          /\ episodes[k] \in addedThisRun[PlaylistId]
          /\ TitleMatches(episodes[k])

HandledServiceError == pc = "returned" /\ exitKind \in {"show_error", "playlist_error"}

\* C5 as stated: after a filter whose service error was handled inside
\* process_filter, every later filter of the list is run, whatever
\* continue_on_error is.
C5_EveryLaterFilterRun == (pc = "done" /\ handledAt # 0) => i = nFilters

\* C5 as amended: a handled service error makes process_filter return
\* (0, 0) without raising and without an add request; the controller counts
\* the filter as processed, not failed, and goes on to the next filter
\* whatever continue_on_error is; the counts of the filters run after it are
\* added to the totals; and a later filter is left out only when an
\* exception of a filter after it stopped the run with continue_on_error
\* false.
C5_HandledErrorGoesOn ==
    /\ [](HandledServiceError => (ret = Returned(0, 0) /\ addCalls = 0))
    /\ [][HandledServiceError =>
            /\ successful_filters' = successful_filters + 1
            /\ failed_filters' = failed_filters
            /\ total_found' = total_found
            /\ total_added' = total_added
            /\ i' = i
            /\ pc' = "main_loop"]_vars
    /\ [][(pc = "returned" /\ ~ret.raised /\ handledAt # 0) =>
            /\ total_found' = total_found + ret.found
            /\ total_added' = total_added + ret.added]_vars
    /\ []((pc = "done" /\ handledAt # 0 /\ i < nFilters) =>
            /\ ~continue_on_error
            /\ failed_filters = 1
            /\ handledAt < i)

\* With continue_on_error false the first filter failed at its show lookup
\* or playlist listing, and the later filters ran and added episodes.
C5_Witness ==
    /\ pc = "done"
    /\ ~continue_on_error
    /\ handledAt = 1
    /\ nFilters >= 2
    /\ i = nFilters
    /\ successful_filters = nFilters
    /\ total_added > 0

\* C6: filters are visited in order, one at a time; an exception leaving
\* process_filter counts one failed filter and adds nothing to the totals;
\* with continue_on_error every filter is attempted, without it none after
\* the first failed one; and the summary is reached with the counts.
C6_RunController ==
    /\ [][i' = i \/ (i' = i + 1 /\ pc = "main_loop" /\ pc' = "process_filter")]_vars
    /\ [][(pc = "returned" /\ ret.raised) =>
            /\ failed_filters' = failed_filters + 1
            /\ successful_filters' = successful_filters
            /\ total_found' = total_found
            /\ total_added' = total_added]_vars
    /\ [](pc = "done" =>
            /\ successful_filters + failed_filters = i
            /\ continue_on_error => i = nFilters
            /\ ~continue_on_error =>
                  /\ failed_filters <= 1
                  /\ failed_filters = 0 => i = nFilters)
    /\ [](pc = "break" => (failed_filters = 1 /\ ~continue_on_error))
    /\ <>(pc = "done")

\* With continue_on_error false a filter failed and the filters after it
\* were not attempted.
C6_Witness ==
    /\ pc = "done"
    /\ ~continue_on_error
    /\ failed_filters = 1
    /\ successful_filters >= 1
    /\ i < nFilters

\* C7: get_show_episodes returns at most limit episodes, in the order of the
\* show's listing, and exactly limit of them when the show has that many and
\* the API returns full pages and a next pointer while more remain.
C7_FetchLength ==
    pc = "fetched" =>
        /\ Len(episodes) <= limit
        /\ Len(episodes) <= Len(show)
        /\ \A k \in 1..Min(Len(episodes), Len(show)) : episodes[k] = show[k]
        /\ (limit >= 1 /\ apiConforming /\ Len(show) >= limit) =>
              Len(episodes) = limit

\* A limit above the batch ceiling was met exactly, over several requests.
C7_Witness ==
    /\ pc = "fetched"
    /\ limit > batch_size
    /\ apiConforming
    /\ Len(episodes) = limit
    /\ Len(requests) >= 2

\* Text with its letters folded to lower case.
Lowered(s) == [k \in 1..Len(s) |-> Fold(s[k])]

\* Pattern p, a valid one, is found somewhere in title s, letter case
\* ignored ("." standing for any character).
FoundIn(p, s) ==
    \E start \in 0..(Len(s) - Len(p)) :
        \A k \in 1..Len(p) :
            p[k] = "." \/ Lowered(p)[k] = Lowered(s)[start + k]

\* C8: matches_patterns returns true iff some valid pattern of the sequence
\* is found in the title, case ignored and unanchored; false for the empty
\* sequence; an invalid pattern raises nothing and hides no later pattern.
C8_MatchesIffSomeValidPattern ==
    pc = "matched" =>
        /\ m_result \in {"True", "False"}
        /\ (m_result = "True") <=>
              \E k \in 1..Len(m_patterns) :
                  /\ ValidRegex(m_patterns[k].text)
                  /\ FoundIn(m_patterns[k].text, m_name)
        /\ m_patterns = <<>> => m_result = "False"

\* An invalid pattern came first and the valid one after it matched, by
\* case folding only.
C8_Witness ==
    /\ pc = "matched"
    /\ m_result = "True"
    /\ Len(m_patterns) = 2
    /\ ~ValidRegex(m_patterns[1].text)
    /\ ~re_search(m_patterns[2].text, m_name, FALSE)

\* The current filter lacks a show id, a pattern or a playlist id.
FilterLacksField ==
    \/ extract_show_id(Get(filter_config, "show_id", <<>>)) = <<>>
    \/ Get(filter_config, "name_patterns", <<>>) = <<>>
    \/ extract_playlist_id(Get(filter_config, "target_playlist_id", <<>>)) = <<>>

\* C9: a filter lacking target_playlist_id (or its show id, or patterns)
\* makes process_filter return (0, 0) before any API call, and the
\* controller counts it as processed, not failed.
C9_IncompleteFilterSkipped ==
    /\ []((FilterLacksField /\ pc \notin {"main_loop", "process_filter", "break", "done"}) =>
            /\ pc = "returned"
            /\ exitKind = "skipped"
            /\ ret = Returned(0, 0)
            /\ apiCalls = 0)
    /\ [][(pc = "returned" /\ exitKind = "skipped") =>
            /\ successful_filters' = successful_filters + 1
            /\ failed_filters' = failed_filters
            /\ total_found' = total_found
            /\ total_added' = total_added]_vars

\* A filter without target_playlist_id was skipped.
C9_Witness ==
    /\ pc = "returned"
    /\ exitKind = "skipped"
    /\ "target_playlist_id" \notin DOMAIN filter_config
    /\ "show_id" \in DOMAIN filter_config
    /\ filter_config.name_patterns # <<>>

\* C10: each request asks for min(50, limit - collected) items, between 1
\* and 50, at the offset of the items collected; none follows a response
\* that is absent, empty, without next pointer or short; and the loop ends.
C10_BatchRequests ==
    /\ [](\A k \in 1..Len(requests) :
            LET r == requests[k]
            IN  /\ r.limit = Min(50, limit - r.collected)
                /\ r.limit \in 1..50
                /\ r.offset = r.collected
                /\ k < Len(requests) =>
                      /\ r.kind = "page"
                      /\ r.got > 0
                      /\ r.next
                      /\ r.got = r.limit)
    /\ [](Len(requests) * 50 < limit + 50)
    /\ [](pc = "fetched" => ~ENABLED FetchBatch)
    /\ <>(pc = "fetched")

\* A limit of more than two batches took three requests.
C10_Witness ==
    /\ pc = "fetched"
    /\ Len(requests) = 3
    /\ requests[3].limit < 50

====
